---- MODULE Spec2Model ----
(***************************************************************************)
(* Bulk-fill job pipeline of the PDF form filler: the in-memory job table, *)
(* the background task generateBulkPDFs, the per-record render and the     *)
(* download / cleanup operations on the job table.                         *)
(***************************************************************************)
EXTENDS Integers, Sequences, FiniteSets, TLC

\* ------------------------------------------------------------------ bounds
\* Most generate requests accepted in one behaviour (uuid jobIds 1..MaxJobs).
MaxJobs == 2
\* Longest data array posted to /generate.
MaxRows == 2
\* Most pending cleanup timers per job (successful downloads not yet cleaned).
MaxDownloads == 1

\* ------------------------------------------------------------ data values
\* Cell values of the "Signature" column of a data record:
\*   "png"    a data:image URI whose bytes decode as PNG or JPEG
\*   "badimg" a data:image URI whose bytes decode as neither
\*   "num"    a non-string scalar (a JSON number such as 42)
SigValues == {"png", "badimg", "num"}

\* "num", "zero", "no" and "true" stand for the number 42, the number 0 and
\* the booleans false and true; every other value is a string.
IsString(v) == v \notin {"num", "zero", "no", "true"}

StartsWithDataImage(v) == v \in {"png", "badimg"}

Decodable(v) == v = "png"

\* A data record of the uploaded batch, keyed by column name.
DataRow(sig) == [Name |-> "Alice", Signature |-> sig]

\* The saved field schema of the template (<template>.fields.json, "fields");
\* its signature field carries a pre-set image as default value.
TemplateFields ==
    << [name |-> "Name", type |-> "text", page |-> 1, value |-> ""],
       [name |-> "Signature", type |-> "signature", page |-> 1, value |-> "png"] >>

\* The mapping the page posts: data header -> template field name.
FieldMapping == << [col |-> "Name", field |-> "Name"],
                   [col |-> "Signature", field |-> "Signature"] >>

\* Absent values of a job object (JavaScript undefined).
Undefined == "undefined"

NoFile == [job |-> 0, ext |-> "none"]

\* path.join(TEMP_DIR, `${jobId}_bulk`) + extension.
OutputPath(jobId, ext) == [job |-> jobId, ext |-> ext]

VARIABLES
    alive,          \* the server process is running
    templatePdf,    \* the template's source PDF in pdf-format: "ok" | "corrupt"
    fieldsFile,     \* the template's global .fields.json: "absent" | "corrupt" | "fields"
    uploadedData,   \* the page's uploaded batch: sequence of Signature cell values
    nextId,         \* number of jobIds handed out so far, plus one
    jobs,           \* keys of the in-memory Map `jobs`
    job,            \* the job objects, by jobId (shared by the Map and the task's closure)
    task,           \* each background task: position and locals of generateBulkPDFs
    files,          \* aggregate artifacts present in the temp directory
    timers,         \* pending setTimeout(cleanupJob) per jobId
    returned,       \* jobIds carried by the 200 responses of POST /generate
    args,           \* arguments of the function call under check (function specifications)
    ret,            \* its return value, [done |-> FALSE] before the call
    userFields      \* data/users/<userId>/<template>.fields.json per user

\* The state of the job pipeline.
jobVars == << alive, templatePdf, fieldsFile, uploadedData, nextId, jobs, job, task,
              files, timers, returned >>

vars == << jobVars, args, ret, userFields >>

\* No function call under check.
NoCall == [fn |-> "none"]

NoReturn == [done |-> FALSE]

\* Users with a directory under data/users.
MaxUsers == 2

Users == 1..MaxUsers

\* The x-user-id header is absent.
NoUser == 0

\* No fields file saved by the user.
NoUserFile == [saved |-> FALSE, fields |-> << >>]

JobIds == 1..MaxJobs

Created == DOMAIN job

\* ------------------------------------------------------- pure functions
Max(S) == CHOOSE x \in S : \A y \in S : y <= x

\* JavaScript falsiness of a value: the empty string, 0 and false.
Falsy(v) == v \in {"", "zero", "no"}

\* reverseMapping[field.name] of applyDataToFields: a later entry of the
\* mapping overwrites an earlier one for the same field name.
ReverseMapping(fieldMapping, name) ==
    LET hits == {k \in 1..Len(fieldMapping) : fieldMapping[k].field = name}
    IN IF hits = {} THEN Undefined ELSE fieldMapping[Max(hits)].col

\* applyDataToFields for the text and signature types of TemplateFields:
\* a mapped, present, non-empty cell replaces the field's value.
applyDataToFields(templateFields, dataRow, fieldMapping) ==
    [k \in DOMAIN templateFields |->
        LET field == templateFields[k]
            dataKey == ReverseMapping(fieldMapping, field.name)
        IN IF dataKey # Undefined /\ dataKey \in DOMAIN dataRow
              /\ dataRow[dataKey] # ""
           THEN [field EXCEPT !.value = dataRow[dataKey]]
           ELSE field]

\* Faulty variant of drawSignature: the embed failure is not caught.
drawSignatureNoCatch(value) ==
    IF Falsy(value) THEN "skipped"
    ELSE IF ~IsString(value) THEN "throws"
    ELSE IF ~StartsWithDataImage(value) THEN "skipped"
    ELSE IF Decodable(value) THEN "drawn"
    ELSE "throws"

\* drawSignature: "drawn", "skipped" (early return or caught embed failure) or
\* "throws" (value.startsWith on a non-string, outside the try block).
drawSignature(value) ==
    IF Falsy(value) THEN "skipped"
    ELSE IF ~IsString(value) THEN "throws"
    ELSE IF ~StartsWithDataImage(value) THEN "skipped"
    ELSE IF Decodable(value) THEN "drawn"
    ELSE "skipped"

\* Pages of the template's source document.
PageCount == 1

\* `(field.page || 1) - 1`: page 0 is falsy.
PageIndex(field) == (IF field.page = 0 THEN 1 ELSE field.page) - 1

\* drawCheckbox draws the mark for true, 'true' and 'checked' only.
drawCheckbox(value) == IF value = "true" THEN "drawn" ELSE "unchecked"

\* One iteration of the field loop of generateFilledPDF.
DrawField(field) ==
    IF Falsy(field.value) /\ field.type # "checkbox" THEN "skipped"
    ELSE IF PageIndex(field) < 0 \/ PageIndex(field) >= PageCount THEN "skipped"
    ELSE IF field.type = "signature" THEN drawSignature(field.value)
    ELSE IF field.type = "checkbox" THEN drawCheckbox(field.value)
    ELSE "drawn"

\* generateFilledPDF: the result of a render, or the exception it throws.
generateFilledPDF(pdf, fields) ==
    IF pdf # "ok"
    THEN [ok |-> FALSE, message |-> "Failed to parse PDF document", drawn |-> {},
          placed |-> {}]
    ELSE IF \E k \in DOMAIN fields : DrawField(fields[k]) = "throws"
    THEN [ok |-> FALSE, message |-> "field.value.startsWith is not a function",
          drawn |-> {}, placed |-> {}]
    ELSE [ok |-> TRUE, message |-> "",
          drawn |-> {fields[k].name : k \in {n \in DOMAIN fields :
                                              DrawField(fields[n]) = "drawn"}},
          placed |-> {[name |-> fields[k].name, page |-> PageIndex(fields[k]) + 1] :
                         k \in {n \in DOMAIN fields : DrawField(fields[n]) # "skipped"}}]

generateSinglePDF(pdf, fields, dataRow, fieldMapping) ==
    generateFilledPDF(pdf, applyDataToFields(fields, dataRow, fieldMapping))

\* Faulty variant of getTemplateFields: an unreadable file yields the empty schema.
getTemplateFieldsEmptyOnError(file) ==
    IF file = "fields" THEN [found |-> TRUE, fields |-> TemplateFields]
    ELSE [found |-> TRUE, fields |-> << >>]

\* getTemplateFields: the schema, or null when the file is missing or unparsable.
getTemplateFields(file) ==
    IF file = "fields" THEN [found |-> TRUE, fields |-> TemplateFields]
    ELSE [found |-> FALSE, fields |-> << >>]

\* ------------------------------------------------------ job object updates
NewJob(jobId, dataRows) ==
    [id |-> jobId, status |-> "processing", total |-> Len(dataRows),
     processed |-> 0, errors |-> << >>, error |-> Undefined,
     outputFile |-> NoFile, outputType |-> Undefined]

\* Faulty variant of RegisterJob: the job is not in the table when the call returns.
RegisterJobAfterAwait(table, jobId) == table

\* jobs.set(jobId, job)
RegisterJob(table, jobId) == table \cup {jobId}

\* Faulty variant of AdvanceProcessed: off by one.
AdvanceProcessedOffByOne(j, i) == [j EXCEPT !.processed = i + 2]

\* job.processed = i + 1
AdvanceProcessed(j, i) == [j EXCEPT !.processed = i + 1]

\* Faulty variant of RecordError: the 0-based loop index is recorded.
RecordErrorZeroBased(j, i, message) ==
    [j EXCEPT !.errors = Append(@, [row |-> i, error |-> message])]

\* job.errors.push({ row: i + 1, error: err.message })
RecordError(j, i, message) ==
    [j EXCEPT !.errors = Append(@, [row |-> i + 1, error |-> message])]

\* job.status = 'error'; job.error = message
FailJob(j, message) == [j EXCEPT !.status = "error", !.error = message]

\* job.outputFile = path; job.outputType = type; job.status = 'completed'
CompleteJob(j, path, type) ==
    [j EXCEPT !.outputFile = path, !.outputType = type, !.status = "completed"]

\* getJobStatus
getJobStatus(jobId) ==
    IF jobId \in jobs THEN job[jobId] ELSE [status |-> Undefined]

\* --------------------------------------------------------------- Init
Datasets == UNION {[1..n -> SigValues] : n \in 0..MaxRows}

Init ==
    /\ alive = TRUE
    /\ templatePdf \in {"ok", "corrupt"}
    /\ fieldsFile \in {"absent", "corrupt", "fields"}
    /\ uploadedData \in Datasets
    \* A corrupt source PDF fails the render before any field value is read:
    \* with it, batches of decodable signatures stand for all batches.
    /\ templatePdf = "corrupt" => \A r \in DOMAIN uploadedData : uploadedData[r] = "png"
    /\ nextId = 1
    /\ jobs = {}
    /\ job = << >>
    /\ task = << >>
    /\ files = {}
    /\ timers = [id \in JobIds |-> 0]
    /\ returned = {}
    /\ args = NoCall
    /\ ret = NoReturn
    /\ userFields = [u \in Users |-> NoUserFile]

\* ------------------------------------------------------------- actions
\* Bodies of POST /generate/:filename: the page's request with either merge
\* option, and the requests the route rejects (400, 400, 404).
ValidRequest(merge) ==
    [dataIsArray |-> TRUE, hasMapping |-> TRUE, templateExists |-> TRUE,
     merge |-> merge]

Requests ==
    {ValidRequest(TRUE), ValidRequest(FALSE),
     [ValidRequest(FALSE) EXCEPT !.dataIsArray = FALSE],
     [ValidRequest(FALSE) EXCEPT !.hasMapping = FALSE],
     [ValidRequest(FALSE) EXCEPT !.templateExists = FALSE]}

\* POST /generate/:filename: validation, then the synchronous prefix of
\* generateBulkPDFs (up to its first await), then the 200 response.
PostGenerate ==
    /\ alive
    /\ \E req \in Requests :
        IF ~req.dataIsArray \/ ~req.hasMapping \/ ~req.templateExists
        THEN UNCHANGED vars
        ELSE /\ nextId <= MaxJobs
             /\ jobs' = RegisterJob(jobs, nextId)
             /\ job' = Append(job, NewJob(nextId, uploadedData))
             /\ task' = Append(task, [pc |-> "resolve", i |-> 0, merge |-> req.merge,
                                      pdfBuffers |-> << >>, pdfNames |-> << >>])
             /\ returned' = returned \cup {nextId}
             /\ nextId' = nextId + 1
             /\ UNCHANGED << alive, templatePdf, fieldsFile, uploadedData, files, timers, args, ret, userFields >>

\* Faulty variant of LoopPc: the loop is left one record early.
LoopPcEarly(j, i) == IF i + 1 < j.total THEN "loop" ELSE "aggregate"

\* The position reached when the record loop is (re)entered with index i.
LoopPc(j, i) == IF i < j.total THEN "loop" ELSE "aggregate"

\* Faulty variant of ResolveSchema: the missing-schema branch does not return.
ResolveSchemaNoReturn(id) ==
    /\ alive
    /\ id \in Created
    /\ task[id].pc = "resolve"
    /\ LET templateFields == getTemplateFields(fieldsFile)
       IN IF ~templateFields.found
          THEN job' = [job EXCEPT ![id] = FailJob(@, "Template fields not found")]
          ELSE UNCHANGED job
    /\ task' = [task EXCEPT ![id].pc = LoopPc(job[id], 0)]
    /\ UNCHANGED << alive, templatePdf, fieldsFile, uploadedData, nextId, jobs,
                    files, timers, returned, args, ret, userFields >>

\* generateBulkPDFs after `await getTemplateFields(...)`.
ResolveSchema(id) ==
    /\ alive
    /\ id \in Created
    /\ task[id].pc = "resolve"
    /\ LET templateFields == getTemplateFields(fieldsFile)
       IN IF ~templateFields.found
          THEN /\ job' = [job EXCEPT ![id] = FailJob(@, "Template fields not found")]
               /\ task' = [task EXCEPT ![id].pc = "done"]
          ELSE /\ task' = [task EXCEPT ![id].pc = LoopPc(job[id], 0)]
               /\ UNCHANGED job
    /\ UNCHANGED << alive, templatePdf, fieldsFile, uploadedData, nextId, jobs,
                    files, timers, returned, args, ret, userFields >>

\* Faulty variant of RenderRecord: the job record is a variable shared by all
\* invocations, so the update lands in the record registered last.
RenderRecordSharedJob(id) ==
    /\ alive
    /\ id \in Created
    /\ task[id].pc = "loop"
    /\ LET i == task[id].i
           r == generateSinglePDF(templatePdf, TemplateFields,
                                  DataRow(uploadedData[i + 1]), FieldMapping)
       IN IF r.ok
          THEN /\ task' = [task EXCEPT ![id].pdfBuffers = Append(@, i + 1),
                                       ![id].pdfNames = Append(@, i + 1),
                                       ![id].i = i + 1,
                                       ![id].pc = LoopPc(job[id], i + 1)]
               /\ job' = [job EXCEPT ![Len(job)] = AdvanceProcessed(@, i)]
          ELSE /\ task' = [task EXCEPT ![id].i = i + 1,
                                       ![id].pc = LoopPc(job[id], i + 1)]
               /\ job' = [job EXCEPT ![Len(job)] = RecordError(@, i, r.message)]
    /\ UNCHANGED << alive, templatePdf, fieldsFile, uploadedData, nextId, jobs,
                    files, timers, returned, args, ret, userFields >>

\* One iteration of the record loop: generateSinglePDF settles for record i.
RenderRecord(id) ==
    /\ alive
    /\ id \in Created
    /\ task[id].pc = "loop"
    /\ LET i == task[id].i
           r == generateSinglePDF(templatePdf, TemplateFields,
                                  DataRow(uploadedData[i + 1]), FieldMapping)
       IN IF r.ok
          THEN /\ task' = [task EXCEPT ![id].pdfBuffers = Append(@, i + 1),
                                       ![id].pdfNames = Append(@, i + 1),
                                       ![id].i = i + 1,
                                       ![id].pc = LoopPc(job[id], i + 1)]
               /\ job' = [job EXCEPT ![id] = AdvanceProcessed(@, i)]
          ELSE /\ task' = [task EXCEPT ![id].i = i + 1,
                                       ![id].pc = LoopPc(job[id], i + 1)]
               /\ job' = [job EXCEPT ![id] = RecordError(@, i, r.message)]
    /\ UNCHANGED << alive, templatePdf, fieldsFile, uploadedData, nextId, jobs,
                    files, timers, returned, args, ret, userFields >>

\* Faulty variant of Ext: the two branches are swapped.
ExtSwapped(merge) == IF merge THEN "zip" ELSE "pdf"

\* The extension and outputType of the artifact.
Ext(merge) == IF merge THEN "pdf" ELSE "zip"

\* mergePDFs + writeFile, or createZipArchive, settle successfully.
AggregateOk(id) ==
    /\ alive
    /\ id \in Created
    /\ task[id].pc = "aggregate"
    /\ LET path == OutputPath(id, Ext(task[id].merge))
       IN /\ files' = files \cup {path}
          /\ job' = [job EXCEPT ![id] = CompleteJob(@, path, Ext(task[id].merge))]
    /\ task' = [task EXCEPT ![id].pc = "done"]
    /\ UNCHANGED << alive, templatePdf, fieldsFile, uploadedData, nextId, jobs,
                    timers, returned, args, ret, userFields >>

\* Faulty variant of AggregateThrows: outputFile is assigned before the failing await.
AggregateThrowsOutputSet(id) ==
    /\ alive
    /\ id \in Created
    /\ task[id].pc = "aggregate"
    /\ job' = [job EXCEPT ![id] =
                  FailJob([@ EXCEPT !.outputFile = OutputPath(id, Ext(task[id].merge))],
                          "Aggregation failed")]
    /\ task' = [task EXCEPT ![id].pc = "done"]
    /\ UNCHANGED << alive, templatePdf, fieldsFile, uploadedData, nextId, jobs,
                    files, timers, returned, args, ret, userFields >>

\* mergePDFs / writeFile throw, or the archiver emits 'error' (reject).
AggregateThrows(id) ==
    /\ alive
    /\ id \in Created
    /\ task[id].pc = "aggregate"
    /\ job' = [job EXCEPT ![id] = FailJob(@, "Aggregation failed")]
    /\ task' = [task EXCEPT ![id].pc = "done"]
    /\ UNCHANGED << alive, templatePdf, fieldsFile, uploadedData, nextId, jobs,
                    files, timers, returned, args, ret, userFields >>

\* createZipArchive: the output write stream fails. Only 'close' of the stream
\* and 'error' of the archiver are listened to, so the promise never settles;
\* the stream's unhandled 'error' event may in addition end the process.
ArchiveStreamError(id) ==
    /\ alive
    /\ id \in Created
    /\ task[id].pc = "aggregate"
    /\ ~task[id].merge
    /\ \/ /\ task' = [task EXCEPT ![id].pc = "hung"]
          /\ UNCHANGED alive
       \/ /\ alive' = FALSE
          /\ UNCHANGED task
    /\ UNCHANGED << templatePdf, fieldsFile, uploadedData, nextId, jobs, job,
                    files, timers, returned, args, ret, userFields >>

\* Faulty variant of DownloadResponse: the output file is not looked for on disk.
DownloadResponseNoFileCheck(id) ==
    IF id \notin jobs THEN "Job not found"
    ELSE IF job[id].status # "completed" THEN "Job not completed yet"
    ELSE IF job[id].outputFile = NoFile THEN "Output file not found"
    ELSE "download"

\* The answer of GET /download/:jobId.
DownloadResponse(id) ==
    IF id \notin jobs THEN "Job not found"
    ELSE IF job[id].status # "completed" THEN "Job not completed yet"
    ELSE IF job[id].outputFile = NoFile \/ job[id].outputFile \notin files
         THEN "Output file not found"
    ELSE "download"

\* GET /download/:jobId served in full, with at most `limit` cleanup timers
\* pending for the job; the callback of a delivered file schedules cleanupJob,
\* a rejected request changes nothing.
DownloadUpTo(id, limit) ==
    /\ alive
    /\ IF DownloadResponse(id) = "download"
       THEN /\ timers[id] < limit
            /\ timers' = [timers EXCEPT ![id] = @ + 1]
       ELSE UNCHANGED timers
    /\ UNCHANGED << alive, templatePdf, fieldsFile, uploadedData, nextId, jobs, job,
                    task, files, returned, args, ret, userFields >>

Download(id) == DownloadUpTo(id, MaxDownloads)

\* A cleanup timer fires: cleanupJob(jobId).
cleanupJob(id) ==
    /\ alive
    /\ timers[id] > 0
    /\ timers' = [timers EXCEPT ![id] = @ - 1]
    /\ files' = IF id \in jobs /\ job[id].outputFile # NoFile
                THEN files \ {job[id].outputFile}
                ELSE files
    /\ jobs' = jobs \ {id}
    /\ UNCHANGED << alive, templatePdf, fieldsFile, uploadedData, nextId, job, task,
                    returned, args, ret, userFields >>

\* The periodic sweep of the temp directory removes the files older than MAX_AGE.
cleanupOldFiles ==
    /\ alive
    /\ \E old \in SUBSET files :
        /\ old # {}
        /\ files' = files \ old
    /\ UNCHANGED << alive, templatePdf, fieldsFile, uploadedData, nextId, jobs, job,
                    task, timers, returned, args, ret, userFields >>

Next ==
    \/ PostGenerate
    \/ \E id \in JobIds : ResolveSchema(id)
    \/ \E id \in JobIds : RenderRecord(id)
    \/ \E id \in JobIds : AggregateOk(id)
    \/ \E id \in JobIds : AggregateThrows(id)
    \/ \E id \in JobIds : ArchiveStreamError(id)
    \/ \E id \in JobIds : Download(id)
    \/ \E id \in JobIds : cleanupJob(id)
    \/ cleanupOldFiles

Spec == Init /\ [][Next]_vars

\* The event loop runs every settled continuation of a background task.
TaskStep(id) ==
    ResolveSchema(id) \/ RenderRecord(id) \/ AggregateOk(id) \/ AggregateThrows(id)
        \/ ArchiveStreamError(id)

FairSpec == Spec /\ \A id \in JobIds : WF_vars(TaskStep(id))

\* In addition every scheduled cleanup timer fires and the periodic sweep runs.
CleanupFairSpec ==
    /\ FairSpec
    /\ \A id \in JobIds : WF_vars(cleanupJob(id))
    /\ WF_vars(cleanupOldFiles)

\* Most downloads of one job within the grace delay of 30 s.
MaxRepeats == 2

\* The download lifecycle: a well-formed template, batches of decodable
\* signatures, and clients that fetch an artifact again before its cleanup.
DownloadInit ==
    /\ Init
    /\ templatePdf = "ok"
    /\ fieldsFile = "fields"
    /\ \A r \in DOMAIN uploadedData : uploadedData[r] = "png"

DownloadNext ==
    \/ PostGenerate
    \/ \E id \in JobIds : ResolveSchema(id)
    \/ \E id \in JobIds : RenderRecord(id)
    \/ \E id \in JobIds : AggregateOk(id)
    \/ \E id \in JobIds : AggregateThrows(id)
    \/ \E id \in JobIds : ArchiveStreamError(id)
    \/ \E id \in JobIds : DownloadUpTo(id, MaxRepeats)
    \/ \E id \in JobIds : cleanupJob(id)
    \/ cleanupOldFiles

DownloadSpec == DownloadInit /\ [][DownloadNext]_vars

TypeOK ==
    /\ alive \in BOOLEAN
    /\ jobs \subseteq Created
    /\ nextId = Len(job) + 1
    /\ Len(task) = Len(job)

\* ---------------------------------------------------------------- claims
Terminal == {"completed", "error"}

SchemaResolves == getTemplateFields(fieldsFile).found

\* Record r (1-based) of the batch makes generateSinglePDF throw.
RenderThrows(r) ==
    ~generateSinglePDF(templatePdf, TemplateFields, DataRow(uploadedData[r]),
                       FieldMapping).ok

ErrorsForRow(id, r) == {k \in DOMAIN job[id].errors : job[id].errors[k].row = r}

\* C1: a job's status starts as 'processing' and changes at most once, to
\* 'completed' or 'error'; no step changes the status of a terminal job.
C1_StatusOnlyForward ==
    [][\A id \in DOMAIN job' :
          IF id \in DOMAIN job
          THEN job'[id].status # job[id].status
                  => /\ job[id].status = "processing"
                     /\ job'[id].status \in Terminal
          ELSE job'[id].status = "processing"]_vars

\* A terminal job on which a later operation (download, cleanupJob) has acted.
C1_Witness ==
    \E id \in Created : job[id].status = "completed" /\ id \notin jobs

\* C2: in every reachable state of every job 0 <= processed <= total, and
\* total is the number of records the job was started with.
C2_ProcessedWithinTotal ==
    \A id \in Created :
        /\ job[id].total = Len(uploadedData)
        /\ 0 <= job[id].processed
        /\ job[id].processed <= job[id].total

C2_Witness ==
    \E id \in Created : job[id].total = MaxRows /\ job[id].processed = job[id].total

C4_ProcessedCountsAttempts ==
    \A id \in Created :
        /\ job[id].processed >= task[id].i
        /\ job[id].status = "completed" => job[id].processed = job[id].total

\* C5: every started job eventually reaches a terminal status.
C5_JobTerminates ==
    \A id \in JobIds :
        (id \in DOMAIN job) ~> (id \in DOMAIN job /\ job[id].status \in Terminal)

\* C6: a jobId carried by a response is in the job table, with status
\* 'processing', processed 0, no errors and total = number of records, from
\* the response on and until a record is processed; it leaves the table only
\* by cleanupJob, after it completed.
C6_RegisteredBeforeResponse ==
    \A id \in returned :
        /\ id \in Created
        /\ id \notin jobs => job[id].status = "completed"
        /\ id \in jobs => getJobStatus(id).total = Len(uploadedData)
        /\ task[id].pc = "resolve"
              => /\ id \in jobs
                 /\ getJobStatus(id).status = "processing"
                 /\ getJobStatus(id).processed = 0
                 /\ getJobStatus(id).errors = << >>

C6_Witness ==
    \E id \in returned :
        /\ task[id].pc = "resolve"
        /\ getJobStatus(id).status = "processing"
        /\ getJobStatus(id).total = MaxRows

\* C7: when the schema cannot be resolved the job goes from 'processing'
\* straight to 'error' with the message 'Template fields not found'; no
\* record is processed, errors stays empty and no output file is produced.
C7_SchemaMissingIsFatal ==
    \A id \in Created :
        fieldsFile \in {"absent", "corrupt"} =>
            /\ \/ task[id].pc = "resolve" /\ job[id].status = "processing"
                  /\ job[id].error = Undefined
               \/ task[id].pc = "done" /\ job[id].status = "error"
                  /\ job[id].error = "Template fields not found"
            /\ job[id].processed = 0
            /\ job[id].errors = << >>
            /\ task[id].i = 0
            /\ task[id].pdfBuffers = << >>
            /\ job[id].outputFile = NoFile
            /\ job[id].outputType = Undefined
            /\ \A f \in files : f.job # id

C7_Witness ==
    \E id \in Created :
        /\ fieldsFile # "fields"
        /\ job[id].total > 0
        /\ job[id].status = "error"
        /\ job[id].error = "Template fields not found"

\* C8: when the merge or archive step throws after the record loop, the job
\* becomes 'error' with the failure message, gets no outputFile, and its
\* per-record errors are left as they were.
C8_AggregationFailureIsFatal ==
    [][\A id \in DOMAIN job :
          (task[id].pc = "aggregate" /\ job'[id].status = "error")
             => /\ task[id].i = job[id].total
                /\ job[id].status = "processing"
                /\ job'[id].error = "Aggregation failed"
                /\ job'[id].outputFile = NoFile
                /\ job'[id].outputType = Undefined
                /\ job'[id].errors = job[id].errors
                /\ job'[id].processed = job[id].processed
                /\ files' = files]_vars

C8_Witness ==
    \E id \in Created :
        /\ job[id].status = "error"
        /\ job[id].error = "Aggregation failed"
        /\ Len(job[id].errors) >= 1
        /\ job[id].processed >= 1

\* C9: a completed job has outputFile at the aggregate artifact and outputType
\* 'pdf' exactly when merge was set, 'zip' otherwise; the artifact exists when
\* the job completes; a 'processing' or 'error' job has no outputFile.
C9_OutputMatchesMergeOption ==
    /\ [](\A id \in Created :
            /\ job[id].status = "completed"
                  => /\ job[id].outputType = IF task[id].merge THEN "pdf" ELSE "zip"
                     /\ job[id].outputFile = [job |-> id, ext |-> job[id].outputType]
            /\ job[id].status \in {"processing", "error"}
                  => /\ job[id].outputFile = NoFile
                     /\ job[id].outputType = Undefined)
    /\ [][\A id \in DOMAIN job :
            (job[id].status # "completed" /\ job'[id].status = "completed")
               => job'[id].outputFile \in files']_vars

C9_Witness ==
    \E a \in Created, b \in Created :
        /\ job[a].status = "completed" /\ task[a].merge /\ job[a].outputType = "pdf"
        /\ job[b].status = "completed" /\ ~task[b].merge /\ job[b].outputType = "zip"

\* The batch holds exactly one undecodable signature string, at row r, beside
\* decodable ones, for a loadable template with a mapped signature field.
OneUndecodableAt(r) ==
    /\ templatePdf = "ok"
    /\ SchemaResolves
    /\ r \in DOMAIN uploadedData
    /\ uploadedData[r] = "badimg"
    /\ \A q \in DOMAIN uploadedData \ {r} : uploadedData[q] = "png"

C11_TerminalJobRemoved ==
    \A id \in JobIds :
        (alive /\ id \in jobs /\ job[id].status \in Terminal)
            ~> (~alive \/ id \notin jobs)

\* The row ceiling of the upload route.
maxRows == 100

\* C13: a generate request with empty data or more rows than the ceiling
\* registers no job: every job of the table was started with 1..maxRows rows.
C13_InvalidRequestNotRegistered ==
    \A id \in Created : job[id].total >= 1 /\ job[id].total <= maxRows

\* C14: a step of one job's background task leaves the record of every other
\* job unchanged.
C14_OtherJobsUnchanged ==
    [][\A a \in Created :
          task'[a] # task[a] => \A b \in Created \ {a} : job'[b] = job[b]]_vars

\* Two jobs are in their record loops at once and one of them has progressed.
C14_Witness ==
    \E a, b \in Created :
        /\ a # b
        /\ task[a].pc = "loop"
        /\ task[b].pc = "loop"
        /\ job[a].processed >= 1
        /\ job[b].processed = 0

\* A file was delivered by the step: its cleanup timer is now pending.
Delivered(id) == timers'[id] > timers[id]

JobsIdle ==
    /\ alive = TRUE
    /\ templatePdf = "ok"
    /\ uploadedData = << >>
    /\ nextId = 1
    /\ jobs = {}
    /\ job = << >>
    /\ task = << >>
    /\ files = {}
    /\ timers = [id \in JobIds |-> 0]
    /\ returned = {}

\* The schemas a user saves from the field editor.
SavedSchemas == {TemplateFields, << TemplateFields[1] >>, << >>}

\* The bulk operations that resolve the schema of a template.
BulkOperations == {"fields", "auto-map", "preview", "generate"}

SchemaInit ==
    /\ JobsIdle
    /\ fieldsFile \in {"absent", "corrupt", "fields"}
    /\ userFields = [u \in Users |-> NoUserFile]
    /\ args = NoCall
    /\ ret = NoReturn

\* POST /api/templates/:filename/fields: the user's own fields file is written.
SaveFields(u) ==
    /\ \E fields \in SavedSchemas :
        userFields' = [userFields EXCEPT ![u] = [saved |-> TRUE, fields |-> fields]]
    /\ UNCHANGED << jobVars, args, ret >>

\* A bulk operation resolves the schema: getTemplateFields(filename, userId)
\* binds only its first parameter and reads the file of the templates directory.
ResolveFields(op, userId) ==
    /\ LET fields == getTemplateFields(fieldsFile)
       IN ret' = [done |-> TRUE, op |-> op, user |-> userId,
                  found |-> fields.found, fields |-> fields.fields]
    /\ args' = [fn |-> op]
    /\ UNCHANGED << jobVars, userFields >>

\* The hasFields test of the listing: the user's own fields file when it
\* exists, else the fields file of the templates directory when it parses.
HasFields(userId) ==
    IF userId # NoUser /\ userFields[userId].saved THEN TRUE
    ELSE fieldsFile = "fields"

\* GET /api/bulk/templates: the template is listed when it has fields.
ListTemplates(userId) ==
    /\ ret' = [done |-> TRUE, op |-> "templates", user |-> userId,
               found |-> HasFields(userId), fields |-> << >>]
    /\ args' = [fn |-> "templates"]
    /\ UNCHANGED << jobVars, userFields >>

SchemaNext ==
    \/ \E u \in Users : SaveFields(u)
    \/ \E op \in BulkOperations, userId \in Users \cup {NoUser} : ResolveFields(op, userId)
    \/ \E userId \in Users \cup {NoUser} : ListTemplates(userId)

SchemaSpec == SchemaInit /\ [][SchemaNext]_vars

\* C15: with a user scope, schema resolution returns the user's own schema
\* when the user has saved one, else the global schema, and not-found only
\* when neither exists.
C15_UserScopedResolution ==
    [][(ret' # ret /\ ret'.op \in BulkOperations /\ ret'.user \in Users) =>
          IF userFields[ret'.user].saved
          THEN ret'.found /\ ret'.fields = userFields[ret'.user].fields
          ELSE IF fieldsFile = "fields"
               THEN ret'.found /\ ret'.fields = TemplateFields
               ELSE ~ret'.found]_vars

\* ------------------------------------------------------- string similarity
\* Strings are sequences of characters.
MaxLen == 3

Alphabet == {"a", "B", "_", "-", " "}

Strings == UNION {[1..n -> Alphabet] : n \in 0..MaxLen}

\* Scores are exact fractions; 0.8 is 4/5.
Score(num, den) == [num |-> num, den |-> den]

ScoreEq(x, y) == x.num * y.den = y.num * x.den

ScoreGt(x, y) == x.num * y.den > y.num * x.den

UpperLetters ==
    << "A", "B", "C", "D", "E", "F", "G", "H", "I", "J", "K", "L", "M",
       "N", "O", "P", "Q", "R", "S", "T", "U", "V", "W", "X", "Y", "Z" >>

LowerLetters ==
    << "a", "b", "c", "d", "e", "f", "g", "h", "i", "j", "k", "l", "m",
       "n", "o", "p", "q", "r", "s", "t", "u", "v", "w", "x", "y", "z" >>

\* String.prototype.toLowerCase on one character.
LowerChar(c) ==
    IF \E k \in DOMAIN UpperLetters : UpperLetters[k] = c
    THEN LowerLetters[CHOOSE k \in DOMAIN UpperLetters : UpperLetters[k] = c]
    ELSE c

toLowerCase(str) == [k \in DOMAIN str |-> LowerChar(str[k])]

\* The class \s of regular expressions and the characters trim() removes.
IsWhitespace(c) == c \in {" ", "\t", "\n"}

IsSeparator(c) == c \in {"_", "-"} \/ IsWhitespace(c)

\* a.toLowerCase().replace(/[_\-\s]/g, '')
Normalize(str) == SelectSeq(toLowerCase(str), LAMBDA c : ~IsSeparator(c))

\* String.prototype.includes
Includes(a, b) ==
    /\ Len(b) <= Len(a)
    /\ \E k \in 0..(Len(a) - Len(b)) : SubSeq(a, k + 1, k + Len(b)) = b

\* Faulty variant of EitherIncludes: only the first operand is searched.
FirstIncludes(a, b) == Includes(a, b)

\* a.includes(b) || b.includes(a)
EitherIncludes(a, b) == Includes(a, b) \/ Includes(b, a)

Min3(x, y, z) ==
    IF x <= y /\ x <= z THEN x ELSE IF y <= z THEN y ELSE z

RECURSIVE FillRow(_, _, _, _, _)
\* Row i of the matrix, cells 0..Len(a), filled from left to right; `row`
\* holds the cells already computed and `prev` is row i - 1 (index j + 1
\* holds cell j).
FillRow(a, b, i, prev, row) ==
    LET j == Len(row)
    IN IF j > Len(a) THEN row
       ELSE FillRow(a, b, i, prev,
                Append(row,
                    IF b[i] = a[j]
                    THEN prev[j]
                    ELSE Min3(prev[j] + 1, row[j] + 1, prev[j + 1] + 1)))

RECURSIVE MatrixRow(_, _, _)
\* matrix[i] after the nested loops.
MatrixRow(a, b, i) ==
    IF i = 0 THEN [k \in 1..(Len(a) + 1) |-> k - 1]
    ELSE FillRow(a, b, i, MatrixRow(a, b, i - 1), << i >>)

\* stringSimilarity(a, b) as a fraction.
stringSimilarity(a0, b0) ==
    LET a == Normalize(a0)
        b == Normalize(b0)
        maxLen == IF Len(a) >= Len(b) THEN Len(a) ELSE Len(b)
    IN IF a = b THEN Score(1, 1)
       ELSE IF EitherIncludes(a, b) THEN Score(4, 5)
       ELSE IF maxLen = 0 THEN Score(1, 1)
       ELSE Score(maxLen - MatrixRow(a, b, Len(b))[Len(a) + 1], maxLen)

SimilarityInit ==
    /\ JobsIdle
    /\ fieldsFile = "fields"
    /\ userFields = [u \in Users |-> NoUserFile]
    /\ args \in {[fn |-> "stringSimilarity", a |-> a, b |-> b] : a, b \in Strings}
    /\ ret = NoReturn

CallStringSimilarity ==
    /\ ~ret.done
    /\ ret' = [done |-> TRUE, score |-> stringSimilarity(args.a, args.b)]
    /\ UNCHANGED << jobVars, args, userFields >>

SimilarityNext == CallStringSimilarity

SimilaritySpec == SimilarityInit /\ [][SimilarityNext]_vars

RECURSIVE RefNormalize(_)
\* The reference normal form: lower-cased, without underscores, hyphens, whitespace.
RefNormalize(str) ==
    IF str = << >> THEN << >>
    ELSE IF Head(str) \in {"_", "-", " "} THEN RefNormalize(Tail(str))
    ELSE IF Head(str) = "A" THEN << "a" >> \o RefNormalize(Tail(str))
    ELSE IF Head(str) = "B" THEN << "b" >> \o RefNormalize(Tail(str))
    ELSE << Head(str) >> \o RefNormalize(Tail(str))

RECURSIVE EditDistance(_, _)
\* Unit-cost insert/delete/substitute edit distance, by its recurrence.
EditDistance(a, b) ==
    IF a = << >> THEN Len(b)
    ELSE IF b = << >> THEN Len(a)
    ELSE Min3(EditDistance(Tail(a), b) + 1,
              EditDistance(a, Tail(b)) + 1,
              EditDistance(Tail(a), Tail(b)) + (IF Head(a) = Head(b) THEN 0 ELSE 1))

\* b occurs in a as a contiguous block.
RefContains(a, b) ==
    \E i \in 1..(Len(a) + 1) :
        \A k \in 1..Len(b) : i + k - 1 <= Len(a) /\ a[i + k - 1] = b[k]

ReferenceMetric(a0, b0) ==
    LET a == RefNormalize(a0)
        b == RefNormalize(b0)
        maxLen == IF Len(a) >= Len(b) THEN Len(a) ELSE Len(b)
    IN IF a = b THEN Score(1, 1)
       ELSE IF RefContains(a, b) \/ RefContains(b, a) THEN Score(4, 5)
       ELSE Score(maxLen - EditDistance(a, b), maxLen)

\* C19: stringSimilarity equals the reference metric: 1 for identical normal
\* forms, 0.8 when one normal form contains the other, otherwise
\* 1 - editDistance / max(len_a, len_b).
C19_SimilarityIsReferenceMetric ==
    ret.done => ScoreEq(ret.score, ReferenceMetric(args.a, args.b))

\* The edit-distance branch gave a score strictly between 0 and 1 for inputs
\* that needed normalizing.
C19_Witness ==
    /\ ret.done
    /\ ret.score.num > 0
    /\ ret.score.num < ret.score.den
    /\ ~ScoreEq(ret.score, Score(4, 5))
    /\ args.a # Normalize(args.a)
    /\ Len(Normalize(args.a)) # Len(Normalize(args.b))

\* ------------------------------------------------------------ auto-mapping
MaxHeaders == 2

MaxFields == 2

\* Header and field names: empty, contained in one another, equal after
\* normalizing, and unrelated.
NamePool ==
    {<< >>, << "a" >>, << "a", "B" >>, << "a", "_", "b" >>, << "B", "B" >>}

HeaderLists == UNION {[1..n -> NamePool] : n \in 0..MaxHeaders}

FieldLists ==
    UNION {[1..n -> {[name |-> name] : name \in NamePool}] : n \in 0..MaxFields}

\* `let bestMatch = null; let bestScore = 0;`
NoMatch == [isNull |-> TRUE, name |-> << >>, score |-> Score(0, 1)]

RECURSIVE BestMatch(_, _, _, _, _)
\* The inner loop of autoMapFields from field k on.
BestMatch(header, templateFields, used, k, best) ==
    IF k > Len(templateFields) THEN best
    ELSE LET field == templateFields[k]
             score == stringSimilarity(header, field.name)
         IN IF field.name \in used
            THEN BestMatch(header, templateFields, used, k + 1, best)
            ELSE IF ScoreGt(score, best.score) /\ ~ScoreGt(Score(1, 2), score)
                 THEN BestMatch(header, templateFields, used, k + 1,
                                [isNull |-> FALSE, name |-> field.name, score |-> score])
                 ELSE BestMatch(header, templateFields, used, k + 1, best)

\* `if (bestMatch)`: null and the empty string are falsy.
Truthy(best) == ~best.isNull /\ best.name # << >>

\* mapping[header] = bestMatch on an object: an existing key keeps its position.
SetKey(mapping, header, name) ==
    IF \E k \in DOMAIN mapping : mapping[k].col = header
    THEN [k \in DOMAIN mapping |->
             IF mapping[k].col = header THEN [col |-> header, field |-> name]
             ELSE mapping[k]]
    ELSE Append(mapping, [col |-> header, field |-> name])

\* Faulty variant of MarkUsed: the matched field stays available.
MarkUsedNever(used, name) == used

\* usedTemplateFields.add(bestMatch)
MarkUsed(used, name) == used \cup {name}

RECURSIVE AutoMapFrom(_, _, _, _, _)
\* The outer loop of autoMapFields from header h on.
AutoMapFrom(dataHeaders, templateFields, h, mapping, used) ==
    IF h > Len(dataHeaders) THEN mapping
    ELSE LET best == BestMatch(dataHeaders[h], templateFields, used, 1, NoMatch)
         IN IF Truthy(best)
            THEN AutoMapFrom(dataHeaders, templateFields, h + 1,
                             SetKey(mapping, dataHeaders[h], best.name),
                             MarkUsed(used, best.name))
            ELSE AutoMapFrom(dataHeaders, templateFields, h + 1, mapping, used)

autoMapFields(dataHeaders, templateFields) ==
    AutoMapFrom(dataHeaders, templateFields, 1, << >>, {})

AutoMapInit ==
    /\ JobsIdle
    /\ fieldsFile = "fields"
    /\ userFields = [u \in Users |-> NoUserFile]
    /\ args \in {[fn |-> "autoMapFields", dataHeaders |-> h, templateFields |-> f] :
                    h \in HeaderLists, f \in FieldLists}
    /\ ret = NoReturn

CallAutoMapFields ==
    /\ ~ret.done
    /\ ret' = [done |-> TRUE,
               mapping |-> autoMapFields(args.dataHeaders, args.templateFields)]
    /\ UNCHANGED << jobVars, args, userFields >>

AutoMapNext == CallAutoMapFields

AutoMapSpec == AutoMapInit /\ [][AutoMapNext]_vars

\* C16: the mapping returned by one call of autoMapFields never assigns the
\* same field name to two different headers.
C16_NoFieldMappedTwice ==
    ret.done =>
        \A i, j \in DOMAIN ret.mapping :
            ret.mapping[i].col # ret.mapping[j].col
                => ret.mapping[i].field # ret.mapping[j].field

\* Two headers are mapped although the second one fits the field of the
\* first one exactly.
C16_Witness ==
    /\ ret.done
    /\ Len(ret.mapping) = 2
    /\ ret.mapping[1].col # ret.mapping[2].col
    /\ Normalize(ret.mapping[2].col) = Normalize(ret.mapping[1].field)

\* The unclaimed fields that score at least 0.5 against the header.
Candidates(header, templateFields, claimed) ==
    {k \in DOMAIN templateFields :
        /\ templateFields[k].name \notin claimed
        /\ ~ScoreGt(Score(1, 2), stringSimilarity(header, templateFields[k].name))}

\* The earliest candidate of highest score.
GreedyChoice(header, templateFields, claimed) ==
    CHOOSE k \in Candidates(header, templateFields, claimed) :
        \A j \in Candidates(header, templateFields, claimed) :
            LET sk == stringSimilarity(header, templateFields[k].name)
                sj == stringSimilarity(header, templateFields[j].name)
            IN ~ScoreGt(sj, sk) /\ (ScoreEq(sj, sk) => k <= j)

RECURSIVE GreedyFrom(_, _, _, _, _)
\* The greedy assignment of the headers from h on.
GreedyFrom(dataHeaders, templateFields, h, mapping, claimed) ==
    IF h > Len(dataHeaders) THEN mapping
    ELSE IF Candidates(dataHeaders[h], templateFields, claimed) = {}
         THEN GreedyFrom(dataHeaders, templateFields, h + 1, mapping, claimed)
         ELSE LET name == templateFields[GreedyChoice(dataHeaders[h], templateFields,
                                                      claimed)].name
                  entry == [col |-> dataHeaders[h], field |-> name]
                  hits == {k \in DOMAIN mapping : mapping[k].col = dataHeaders[h]}
              IN GreedyFrom(dataHeaders, templateFields, h + 1,
                            IF hits = {} THEN Append(mapping, entry)
                            ELSE [k \in DOMAIN mapping |->
                                     IF k \in hits THEN entry ELSE mapping[k]],
                            claimed \cup {name})

\* C22: autoMapFields is greedy: each header, in input order, is mapped to the
\* not-yet-claimed field of highest similarity score when that score is at
\* least 0.5, the earliest field winning ties, and a header is absent from the
\* mapping only when no unclaimed field scores at least 0.5 for it.
C22_GreedyMapping ==
    ret.done =>
        ret.mapping = GreedyFrom(args.dataHeaders, args.templateFields, 1, << >>, {})

\* ------------------------------------------------- applying data to fields
\* Field descriptors are objects: a list holds references (indices) into a
\* heap of descriptors, and `field.value = value` writes through a reference.

\* Faulty variant of JSONClone: a new array of the same descriptor objects.
SpreadClone(heap, list) == [heap |-> heap, list |-> list]

\* JSON.parse(JSON.stringify(templateFields)): every descriptor is allocated anew.
JSONClone(heap, list) ==
    [heap |-> heap \o [k \in DOMAIN list |-> heap[list[k]]],
     list |-> [k \in DOMAIN list |-> Len(heap) + k]]

\* applyDataToFields on the heap: the loop writes the values into the
\* descriptors of filledFields.
ApplyOnHeap(heap, templateFields, dataRow, fieldMapping) ==
    LET clone == JSONClone(heap, templateFields)
        filledFields == clone.list
        filled == applyDataToFields([k \in DOMAIN filledFields |->
                                        clone.heap[filledFields[k]]],
                                    dataRow, fieldMapping)
    IN [heap |-> [r \in DOMAIN clone.heap |->
                     IF \E k \in DOMAIN filledFields : filledFields[k] = r
                     THEN filled[CHOOSE k \in DOMAIN filledFields : filledFields[k] = r]
                     ELSE clone.heap[r]],
        filledFields |-> filledFields]

\* The mappings a page posts: all columns, one column, none.
ApplyMappings ==
    {FieldMapping, << FieldMapping[1] >>, << FieldMapping[2] >>, << >>}

\* One job's schema, loaded once, and its records.
ApplyInit ==
    /\ JobsIdle
    /\ fieldsFile = "fields"
    /\ userFields = [u \in Users |-> NoUserFile]
    /\ args \in {[fn |-> "applyDataToFields", heap |-> TemplateFields,
                  templateFields |-> [k \in DOMAIN TemplateFields |-> k],
                  rows |-> rows, fieldMapping |-> m, i |-> 0] :
                    rows \in Datasets, m \in ApplyMappings}
    /\ ret = NoReturn

\* generateSinglePDF calls applyDataToFields for the next record of the job;
\* the filled list is dropped after rendering.
ApplyNextRecord ==
    /\ args.i < Len(args.rows)
    /\ LET r == ApplyOnHeap(args.heap, args.templateFields,
                            DataRow(args.rows[args.i + 1]), args.fieldMapping)
       IN /\ args' = [args EXCEPT !.heap = SubSeq(r.heap, 1, Len(args.heap)),
                                  !.i = args.i + 1]
          /\ ret' = [done |-> TRUE,
                     filledFields |-> [k \in DOMAIN r.filledFields |->
                                          r.heap[r.filledFields[k]]]]
    /\ UNCHANGED << jobVars, userFields >>

ApplyNext == ApplyNextRecord

ApplySpec == ApplyInit /\ [][ApplyNext]_vars

\* C17: applyDataToFields never mutates its input: the template field list and
\* every descriptor in it are the same before and after each call, also over
\* the successive records of one job.
C17_InputListUnchanged ==
    [][/\ args'.templateFields = args.templateFields
       /\ \A k \in DOMAIN args.templateFields :
             args'.heap[args.templateFields[k]] = args.heap[args.templateFields[k]]]_vars

\* The second call of a job returned descriptors whose values differ from
\* the template's.
C17_Witness ==
    /\ ret.done
    /\ args.i >= 2
    /\ \E k \in DOMAIN ret.filledFields :
          ret.filledFields[k].value # args.heap[args.templateFields[k]].value

\* ---------------------------------------------------------------- merging
MaxDocs == 3

MaxDocPages == 2

\* The outcome of rendering one record: failed, or a document of some pages.
Renders ==
    {[ok |-> FALSE, pages |-> 0]} \cup {[ok |-> TRUE, pages |-> n] : n \in 1..MaxDocPages}

RenderLists == UNION {[1..n -> Renders] : n \in 0..MaxDocs}

\* pdfBuffers after the record loop: the documents of the records whose
\* render succeeded, in record order.
PdfBuffers(renders) ==
    SelectSeq([r \in DOMAIN renders |-> [row |-> r, ok |-> renders[r].ok,
                                         pages |-> renders[r].pages]],
              LAMBDA d : d.ok)

\* The pages of a loaded document in the order of getPageIndices().
PagesOf(pdfDoc) == [p \in 1..pdfDoc.pages |-> [row |-> pdfDoc.row, page |-> p]]

\* The page save() adds to a document that has none.
BlankPage == [row |-> 0, page |-> 0]

\* mergedPdf.save(): pdf-lib adds a default page to a document without pages.
Save(pages) == IF pages = << >> THEN << BlankPage >> ELSE pages

MergeInit ==
    /\ JobsIdle
    /\ fieldsFile = "fields"
    /\ userFields = [u \in Users |-> NoUserFile]
    /\ args \in {[fn |-> "mergePDFs", renders |-> r] : r \in RenderLists}
    /\ ret = [done |-> FALSE, k |-> 0, pages |-> << >>]

\* One iteration of the loop of mergePDFs: load, copyPages, addPage.
CopyPages ==
    /\ ~ret.done
    /\ ret.k < Len(PdfBuffers(args.renders))
    /\ ret' = [ret EXCEPT !.k = @ + 1,
                          !.pages = @ \o PagesOf(PdfBuffers(args.renders)[ret.k + 1])]
    /\ UNCHANGED << jobVars, args, userFields >>

\* `return Buffer.from(await mergedPdf.save())`
SaveMerged ==
    /\ ~ret.done
    /\ ret.k = Len(PdfBuffers(args.renders))
    /\ ret' = [ret EXCEPT !.done = TRUE, !.pages = Save(@)]
    /\ UNCHANGED << jobVars, args, userFields >>

MergeNext == CopyPages \/ SaveMerged

MergeSpec == MergeInit /\ [][MergeNext]_vars

RECURSIVE SuccessfulPagesFrom(_, _)
\* The pages of the successfully rendered records from record r on.
SuccessfulPagesFrom(renders, r) ==
    IF r > Len(renders) THEN << >>
    ELSE (IF renders[r].ok
          THEN [p \in 1..renders[r].pages |-> [row |-> r, page |-> p]]
          ELSE << >>) \o SuccessfulPagesFrom(renders, r + 1)

RECURSIVE SuccessfulPageCount(_, _)
SuccessfulPageCount(renders, r) ==
    IF r > Len(renders) THEN 0
    ELSE (IF renders[r].ok THEN renders[r].pages ELSE 0)
             + SuccessfulPageCount(renders, r + 1)

\* C18: the merged document's page sequence is the concatenation, in record
\* order, of the pages of each successfully rendered document, so its page
\* count is the sum of their page counts; failed records contribute nothing.
C18_MergedIsConcatenation ==
    ret.done =>
        /\ ret.pages = SuccessfulPagesFrom(args.renders, 1)
        /\ Len(ret.pages) = SuccessfulPageCount(args.renders, 1)

\* ----------------------------------------------------- checkbox coercion
MaxPad == 1

MaxItems == 2

\* A JavaScript value: a boolean, a number, a string, null, undefined, a plain
\* object, or an array of strings.
Value(t, b, n, s, items) == [t |-> t, b |-> b, n |-> n, s |-> s, items |-> items]

UpperChar(c) ==
    IF \E k \in DOMAIN LowerLetters : LowerLetters[k] = c
    THEN UpperLetters[CHOOSE k \in DOMAIN LowerLetters : LowerLetters[k] = c]
    ELSE c

toUpperCase(str) == [k \in DOMAIN str |-> UpperChar(str[k])]

Capitalized(str) ==
    [k \in DOMAIN str |-> IF k = 1 THEN UpperChar(str[k]) ELSE str[k]]

\* ['true', 'yes', '1', 'checked', 'on', 'x']
CheckedWords ==
    {<< "t", "r", "u", "e" >>, << "y", "e", "s" >>, << "1" >>,
     << "c", "h", "e", "c", "k", "e", "d" >>, << "o", "n" >>, << "x" >>}

\* Cell texts that are not in the list.
OtherWords ==
    {<< >>, << "n", "o" >>, << "0" >>, << "m", "a", "y", "b", "e" >>,
     << "t", "r", "u" >>, << "x", "x" >>, << "o", " ", "n" >>,
     << "f", "a", "l", "s", "e" >>}

Pads == UNION {[1..n -> {" ", "\t"}] : n \in 0..MaxPad}

CellTexts ==
    {l \o v \o r : l \in Pads, r \in Pads,
                   v \in UNION {{w, toUpperCase(w), Capitalized(w)} :
                                   w \in CheckedWords \cup OtherWords}}

ArrayItems == {<< "y", "e", "s" >>, << " ", "X" >>, << "n", "o" >>}

CheckboxValues ==
    {Value("boolean", b, 0, << >>, << >>) : b \in BOOLEAN}
        \cup {Value("number", FALSE, n, << >>, << >>) : n \in -1..2}
        \cup {Value("string", FALSE, 0, s, << >>) : s \in CellTexts}
        \cup {Value(t, FALSE, 0, << >>, << >>) : t \in {"null", "undefined", "object"}}
        \cup {Value("array", FALSE, 0, << >>, items) :
                 items \in UNION {[1..n -> ArrayItems] : n \in 0..MaxItems}}

RECURSIVE Join(_)
\* Array.prototype.join(',') of strings.
Join(items) ==
    IF items = << >> THEN << >>
    ELSE IF Len(items) = 1 THEN items[1]
    ELSE items[1] \o << "," >> \o Join(Tail(items))

\* String(value) of a value that is neither a boolean nor a number.
String(value) ==
    IF value.t = "string" THEN value.s
    ELSE IF value.t = "null" THEN << "n", "u", "l", "l" >>
    ELSE IF value.t = "undefined"
         THEN << "u", "n", "d", "e", "f", "i", "n", "e", "d" >>
    ELSE IF value.t = "array" THEN Join(value.items)
    ELSE << "[", "o", "b", "j", "e", "c", "t", " ", "O", "b", "j", "e", "c", "t", "]" >>

RECURSIVE trimStart(_)
trimStart(str) ==
    IF str # << >> /\ IsWhitespace(Head(str)) THEN trimStart(Tail(str)) ELSE str

RECURSIVE trimEnd(_)
trimEnd(str) ==
    IF str # << >> /\ IsWhitespace(str[Len(str)])
    THEN trimEnd(SubSeq(str, 1, Len(str) - 1))
    ELSE str

\* Faulty variant of trim: only leading whitespace is removed.
trimLeading(str) == trimStart(str)

\* String.prototype.trim
trim(str) == trimEnd(trimStart(str))

normalizeCheckboxValue(value) ==
    IF value.t = "boolean" THEN value.b
    ELSE IF value.t = "number" THEN value.n = 1
    ELSE trim(toLowerCase(String(value))) \in CheckedWords

CheckboxInit ==
    /\ JobsIdle
    /\ fieldsFile = "fields"
    /\ userFields = [u \in Users |-> NoUserFile]
    /\ args \in {[fn |-> "normalizeCheckboxValue", value |-> v] : v \in CheckboxValues}
    /\ ret = NoReturn

CallNormalizeCheckboxValue ==
    /\ ~ret.done
    /\ ret' = [done |-> TRUE, value |-> normalizeCheckboxValue(args.value)]
    /\ UNCHANGED << jobVars, args, userFields >>

CheckboxNext == CallNormalizeCheckboxValue

CheckboxSpec == CheckboxInit /\ [][CheckboxNext]_vars

\* The text is one of the six words in any letter case, with whitespace
\* around it only.
IsCheckedText(str) ==
    \E w \in CheckedWords :
        \E i \in 0..(Len(str) - Len(w)) :
            /\ \A k \in 1..i : IsWhitespace(str[k])
            /\ \A k \in 1..Len(w) : str[i + k] \in {w[k], UpperChar(w[k])}
            /\ \A k \in (i + Len(w) + 1)..Len(str) : IsWhitespace(str[k])

\* What the claim states for booleans, numbers and strings.
ScalarCoercion(value, result) ==
    /\ value.t = "boolean" => result = value.b
    /\ value.t = "number" => result = (value.n = 1)
    /\ value.t = "string" => result = IsCheckedText(value.s)

MaxMapped == 2

\* Column names of a batch; a CSV header cell or a JSON key may be empty.
FillColumns == {"A", "B", ""}

Absent == Value("undefined", FALSE, 0, << >>, << >>)

Text(s) == Value("string", FALSE, 0, s, << >>)

\* The cells of a record: a missing column, '', null, texts (one with both
\* textarea separators, one checkbox word) and the number 0.
FillValues ==
    {Absent, Text(<< >>), Value("null", FALSE, 0, << >>, << >>),
     Text(<< "x" >>), Text(<< "a", "|", "|", "b", "\\", "n", "c" >>),
     Text(<< "y", "e", "s" >>), Value("number", FALSE, 0, << >>, << >>)}

\* Object.entries(fieldMapping): distinct columns in insertion order.
FillMappings ==
    {m \in UNION {[1..n -> [col : FillColumns, field : {"F", "G"}]] : n \in 0..MaxMapped} :
        \A i, j \in DOMAIN m : i # j => m[i].col # m[j].col}

\* The template's fields: the first one of any type, both with a default value.
FillTemplates ==
    {<< [name |-> "F", type |-> t, page |-> 1, value |-> Text(<< "d" >>)],
        [name |-> "G", type |-> "text", page |-> 2, value |-> Text(<< >>)] >> :
        t \in {"text", "number", "checkbox", "textarea"}}

RECURSIVE ReplaceAll(_, _, _)
\* str.replace(/pattern/g, replacement) for a literal pattern.
ReplaceAll(str, pattern, replacement) ==
    IF Len(str) < Len(pattern) THEN str
    ELSE IF SubSeq(str, 1, Len(pattern)) = pattern
         THEN replacement
                  \o ReplaceAll(SubSeq(str, Len(pattern) + 1, Len(str)), pattern, replacement)
         ELSE << Head(str) >> \o ReplaceAll(Tail(str), pattern, replacement)

\* The checkbox and textarea handling of applyDataToFields.
CoerceValue(type, value) ==
    IF type = "checkbox"
    THEN Value("boolean", normalizeCheckboxValue(value), 0, << >>, << >>)
    ELSE IF type = "textarea" /\ value.t = "string"
         THEN Text(ReplaceAll(ReplaceAll(value.s, << "|", "|" >>, << "\n" >>),
                              << "\\", "n" >>, << "\n" >>))
         ELSE value

\* applyDataToFields over typed record values.
applyDataToFieldsTyped(templateFields, dataRow, fieldMapping) ==
    [k \in DOMAIN templateFields |->
        LET field == templateFields[k]
            dataKey == ReverseMapping(fieldMapping, field.name)
        IN IF dataKey # Undefined /\ dataKey # "" /\ dataRow[dataKey] # Absent
           THEN LET value == dataRow[dataKey]
                IN IF value = Text(<< >>) \/ value.t = "null" THEN field
                   ELSE [field EXCEPT !.value = CoerceValue(field.type, value)]
           ELSE field]

FillInit ==
    /\ JobsIdle
    /\ fieldsFile = "fields"
    /\ userFields = [u \in Users |-> NoUserFile]
    /\ args \in {[fn |-> "applyDataToFields", templateFields |-> f, dataRow |-> r,
                  fieldMapping |-> m] :
                    f \in FillTemplates, r \in [FillColumns -> FillValues],
                    m \in FillMappings}
    /\ ret = NoReturn

CallApplyDataToFields ==
    /\ ~ret.done
    /\ ret' = [done |-> TRUE,
               filledFields |-> applyDataToFieldsTyped(args.templateFields, args.dataRow,
                                                       args.fieldMapping)]
    /\ UNCHANGED << jobVars, args, userFields >>

FillSpec == FillInit /\ [][CallApplyDataToFields]_vars

\* The columns mapped to the field name that exist in the record with a value
\* that is neither the empty string nor null.
FilledColumns(name) ==
    {c \in FillColumns :
        /\ \E k \in DOMAIN args.fieldMapping :
              args.fieldMapping[k] = [col |-> c, field |-> name]
        /\ args.dataRow[c] # Absent
        /\ args.dataRow[c] # Text(<< >>)
        /\ args.dataRow[c].t # "null"}

\* C23: for every field f returned by applyDataToFields: if a column c is
\* mapped to f.name, c exists in the record and record[c] is neither the empty
\* string nor null, then f.value is the record's value (coerced only for the
\* checkbox and textarea types); otherwise f.value is the template's
\* pre-existing value. All attributes other than value equal the template's.
C23_FieldValues ==
    ret.done =>
        \A k \in DOMAIN args.templateFields :
            LET t == args.templateFields[k]
                f == ret.filledFields[k]
            IN /\ Len(ret.filledFields) = Len(args.templateFields)
               /\ f.name = t.name /\ f.type = t.type /\ f.page = t.page
               /\ IF FilledColumns(t.name) # {}
                  THEN \E c \in FilledColumns(t.name) :
                          f.value = IF t.type \in {"checkbox", "textarea"}
                                    THEN CoerceValue(t.type, args.dataRow[c])
                                    ELSE args.dataRow[c]
                  ELSE f.value = t.value

\* ---------------------------------------------------------- time formatting
DigitChars == << "0", "1", "2", "3", "4", "5", "6", "7", "8", "9" >>

IsDigit(c) == \E k \in DOMAIN DigitChars : DigitChars[k] = c

DigitValue(c) == (CHOOSE k \in DOMAIN DigitChars : DigitChars[k] = c) - 1

\* The hours of a day and a few minutes of an hour, written with two digits.
TwoDigits(n) == << DigitChars[(n \div 10) + 1], DigitChars[(n % 10) + 1] >>

\* Hour and minute parts around a colon, and texts of other shapes.
TimeTexts ==
    {h \o << ":" >> \o m :
        h \in {TwoDigits(n) : n \in 0..23}
                  \cup {<< "9" >>, << "a", "b" >>, << "1", "x" >>, << >>},
        m \in {TwoDigits(0), TwoDigits(5), TwoDigits(30), TwoDigits(59),
               << "x", "y" >>, << >>}}
        \cup {<< >>, << "1", "4", "3", "0" >>,
              << "2", ":", "3", "0", " ", "P", "M" >>,
              << "2", ":", "3", "0", " ", "a", "m" >>,
              << "1", "4", ":", "3", "0", ":", "4", "5" >>}

\* The index of the first ':' of str from position k on, or 0.
RECURSIVE ColonFrom(_, _)
ColonFrom(str, k) ==
    IF k > Len(str) THEN 0
    ELSE IF str[k] = ":" THEN k
    ELSE ColonFrom(str, k + 1)

\* `const [hours, minutes] = timeStr.split(':')`: the first two parts; a part
\* that does not exist is undefined.
SplitTime(timeStr) ==
    LET c1 == ColonFrom(timeStr, 1)
        c2 == IF c1 = 0 THEN 0 ELSE ColonFrom(timeStr, c1 + 1)
    IN IF c1 = 0
       THEN [hours |-> timeStr, hasMinutes |-> FALSE, minutes |-> << >>]
       ELSE [hours |-> SubSeq(timeStr, 1, c1 - 1), hasMinutes |-> TRUE,
             minutes |-> IF c2 = 0 THEN SubSeq(timeStr, c1 + 1, Len(timeStr))
                         ELSE SubSeq(timeStr, c1 + 1, c2 - 1)]

RECURSIVE DigitsValue(_, _, _)
\* The number written by the leading digits of str from position k on.
DigitsValue(str, k, acc) ==
    IF k > Len(str) \/ ~IsDigit(str[k]) THEN acc
    ELSE DigitsValue(str, k + 1, acc * 10 + DigitValue(str[k]))

\* parseInt(str, 10) of a text without sign or leading whitespace: the number
\* of its leading digits, NaN when it starts with no digit.
parseInt(str) ==
    IF str = << >> \/ ~IsDigit(str[1]) THEN [nan |-> TRUE, n |-> 0]
    ELSE [nan |-> FALSE, n |-> DigitsValue(str, 1, 0)]

RECURSIVE NumberText(_)
\* The decimal text of a natural number.
NumberText(n) ==
    IF n < 10 THEN << DigitChars[n + 1] >>
    ELSE NumberText(n \div 10) \o << DigitChars[(n % 10) + 1] >>

\* `h >= 12` is false for NaN; in `h % 12 || 12` NaN and 0 are falsy.
formatTime(timeStr) ==
    IF timeStr = << >> THEN << >>
    ELSE IF Includes(toLowerCase(timeStr), << "m" >>) THEN timeStr
    ELSE LET parts == SplitTime(timeStr)
         IN IF parts.hours = << >> \/ ~parts.hasMinutes \/ parts.minutes = << >>
            THEN timeStr
            ELSE LET h == parseInt(parts.hours)
                     ampm == IF ~h.nan /\ h.n >= 12 THEN << "P", "M" >>
                             ELSE << "A", "M" >>
                     h12 == IF h.nan \/ h.n % 12 = 0 THEN 12 ELSE h.n % 12
                 IN NumberText(h12) \o << ":" >> \o parts.minutes
                        \o << " " >> \o ampm

TimeInit ==
    /\ JobsIdle
    /\ fieldsFile = "fields"
    /\ userFields = [u \in Users |-> NoUserFile]
    /\ args \in {[fn |-> "formatTime", timeStr |-> t] : t \in TimeTexts}
    /\ ret = NoReturn

CallFormatTime ==
    /\ ~ret.done
    /\ ret' = [done |-> TRUE, text |-> formatTime(args.timeStr)]
    /\ UNCHANGED << jobVars, args, userFields >>

TimeSpec == TimeInit /\ [][CallFormatTime]_vars

\* A 24-hour "HH:MM" text: two digits, a colon, two digits, 00:00 to 23:59.
IsHHMM(str) ==
    /\ Len(str) = 5
    /\ str[3] = ":"
    /\ \A k \in {1, 2, 4, 5} : IsDigit(str[k])
    /\ DigitValue(str[1]) * 10 + DigitValue(str[2]) <= 23
    /\ DigitValue(str[4]) * 10 + DigitValue(str[5]) <= 59

\* "H:MM AM/PM" of a 24-hour "HH:MM" text.
TwelveHourText(str) ==
    LET hh == DigitValue(str[1]) * 10 + DigitValue(str[2])
        hour == IF hh = 0 THEN 12 ELSE IF hh > 12 THEN hh - 12 ELSE hh
    IN (IF hour >= 10 THEN << "1", DigitChars[hour - 9] >>
        ELSE << DigitChars[hour + 1] >>)
           \o << ":", str[4], str[5], " " >>
           \o (IF hh < 12 THEN << "A", "M" >> ELSE << "P", "M" >>)

\* The text has an hour part and a minute part around its colon and one of
\* them is not a number.
NonNumericPart(str) ==
    \E c \in 2..(Len(str) - 1) :
        /\ str[c] = ":"
        /\ \A k \in DOMAIN str : k # c => str[k] # ":"
        /\ \E k \in DOMAIN str : k # c /\ ~IsDigit(str[k])

\* C21: formatTime maps every 24-hour "HH:MM" value to "H:MM AM/PM", returns
\* "" for the empty value, and returns its input unchanged for every value
\* that contains "m"/"M" or that fails to parse as a time, such as one with a
\* non-numeric hour part.
C21_FormatTime ==
    ret.done =>
        LET t == args.timeStr
        IN /\ IsHHMM(t) => ret.text = TwelveHourText(t)
           /\ t = << >> => ret.text = << >>
           /\ (\E k \in DOMAIN t : t[k] \in {"m", "M"}) => ret.text = t
           /\ NonNumericPart(t) => ret.text = t

\* ---------------------------------------------------------------- rendering
MaxRenderFields == 2

RenderNames == << "Name", "Signature", "Notes" >>

\* Field values after applyDataToFields: the empty string, a text, two data
\* URIs, and values that come unchanged from a JSON record (42, 0, false, true).
RenderValues == {"", "Alice", "png", "badimg", "num", "zero", "no", "true"}

RenderFields ==
    UNION {{[k \in 1..n |-> [name |-> RenderNames[k], type |-> shape[k].type,
                             page |-> shape[k].page, value |-> shape[k].value]] :
               shape \in [1..n -> [type : {"text", "number", "checkbox", "signature"},
                                   page : -1..(PageCount + 1),
                                   value : RenderValues]]} :
           n \in 0..MaxRenderFields}

RenderInit ==
    /\ JobsIdle
    /\ fieldsFile = "fields"
    /\ userFields = [u \in Users |-> NoUserFile]
    /\ args \in {[fn |-> "generateFilledPDF", pdf |-> pdf, fields |-> f] :
                    pdf \in {"ok", "corrupt"}, f \in RenderFields}
    /\ ret = NoReturn

CallGenerateFilledPDF ==
    /\ ~ret.done
    /\ ret' = [done |-> TRUE, result |-> generateFilledPDF(args.pdf, args.fields)]
    /\ UNCHANGED << jobVars, args, userFields >>

RenderSpec == RenderInit /\ [][CallGenerateFilledPDF]_vars

\* C24: a failure while drawing one field never aborts the render: a
\* signature field whose value is malformed or cannot be decoded (not a data
\* URI, undecodable image bytes, a non-string value) is skipped, the remaining
\* fields are still drawn and a document is returned; only a failure to load
\* the source document makes the call fail.
C24_FieldFailureNeverAborts ==
    (ret.done /\ args.pdf = "ok") =>
        /\ ret.result.ok
        /\ \A k \in DOMAIN args.fields :
              LET field == args.fields[k]
              IN /\ (field.type = "signature" /\ field.value # "png")
                        => field.name \notin ret.result.drawn
                 /\ (field.type \in {"text", "number"} /\ field.value = "Alice"
                     /\ field.page = 1)
                        => field.name \in ret.result.drawn

\* C25: generateFilledPDF skips a non-checkbox field exactly when its value is
\* empty (absent, null or the empty string): every non-checkbox field with a
\* non-empty value, the number 0 and the boolean false included, is drawn, and
\* a checkbox field is never skipped by the emptiness test.
C25_SkippedExactlyWhenEmpty ==
    (ret.done /\ ret.result.ok) =>
        \A k \in DOMAIN args.fields :
            LET field == args.fields[k]
            IN field.page = 1 =>
                  /\ field.type \in {"text", "number"}
                        => (field.name \in ret.result.drawn <=> field.value # "")
                  /\ field.type = "checkbox"
                        => \E p \in ret.result.placed : p.name = field.name

\* C26: generateFilledPDF resolves each field's target page by its 1-based
\* page index: a field is drawn on page p iff 1 <= p <= pageCount, and a field
\* whose page index is 0, negative or greater than pageCount is drawn on no
\* page, without failing the render.
C26_PageInRange ==
    ret.done =>
        \A k \in DOMAIN args.fields :
            LET field == args.fields[k]
            IN /\ (field.page < 1 \/ field.page > PageCount)
                     => /\ \A p \in ret.result.placed : p.name # field.name
                        /\ (args.pdf = "ok" /\ Len(args.fields) = 1) => ret.result.ok
               /\ (ret.result.ok /\ field.page \in 1..PageCount
                   /\ field.type \in {"text", "number"} /\ field.value = "Alice")
                     => [name |-> field.name, page |-> field.page] \in ret.result.placed

\* -------------------------------------------------------------- record loop
\* C27: within one job, records are attempted in increasing index order, each
\* exactly once (a failed record is never retried), one at a time, and
\* aggregation starts only after the last record has been attempted.
C27_SequentialAttempts ==
    [][\A id \in DOMAIN task :
          LET before == task[id]
              after == task'[id]
          IN /\ after.i \in {before.i, before.i + 1}
             /\ after.i = before.i + 1 =>
                   /\ before.pc = "loop"
                   /\ before.i < job[id].total
                   /\ after.pdfBuffers \in {before.pdfBuffers,
                                            Append(before.pdfBuffers, before.i + 1)}
                   /\ \/ job'[id].errors = job[id].errors
                      \/ /\ Len(job'[id].errors) = Len(job[id].errors) + 1
                         /\ SubSeq(job'[id].errors, 1, Len(job[id].errors)) = job[id].errors
                         /\ job'[id].errors[Len(job'[id].errors)].row = before.i + 1
             /\ after.i = before.i =>
                   /\ after.pdfBuffers = before.pdfBuffers
                   /\ job'[id].errors = job[id].errors
             /\ (before.pc # "aggregate" /\ after.pc = "aggregate")
                   => after.i = job[id].total
             /\ before.pc \in {"aggregate", "done", "hung"} => after.i = before.i]_vars

\* A job of two records reached aggregation after one record failed and the
\* other one rendered.
C27_Witness ==
    \E id \in DOMAIN task :
        /\ task[id].pc = "aggregate"
        /\ task[id].i = 2
        /\ Len(task[id].pdfBuffers) = 1
        /\ Len(job[id].errors) = 1

\* ------------------------------------------------------ archive entry names
NameLimit == 50

\* No filenameField option (the default, null).
NoField == ""

CellText(s) == [kind |-> "text", s |-> s]

\* The value of the filenameField column of a record: absent, an object that
\* cannot be converted to a string, or a text.
IdCells ==
    {[kind |-> "absent", s |-> << >>], [kind |-> "object", s |-> << >>],
     CellText(<< >>), CellText(<< "a", " ", "b" >>),
     CellText(<< "a", "_", "b" >>), CellText(<< "f", "i", "l", "l", "e", "d", "_", "2" >>)}

\* A record: its signature cell decides whether it renders, its Id column is
\* not mapped to any field.
NamedDatasets ==
    UNION {[1..n -> [sig : {"png", "num"}, id : IdCells]] : n \in 0..MaxRows}

\* /[^a-zA-Z0-9_-]/
IsSafeChar(c) ==
    \/ \E k \in DOMAIN UpperLetters : UpperLetters[k] = c
    \/ \E k \in DOMAIN LowerLetters : LowerLetters[k] = c
    \/ IsDigit(c)
    \/ c \in {"_", "-"}

\* String(value).replace(/[^a-zA-Z0-9_-]/g, '_').substring(0, 50)
SafeName(str) ==
    LET replaced == [k \in DOMAIN str |-> IF IsSafeChar(str[k]) THEN str[k] ELSE "_"]
    IN SubSeq(replaced, 1, IF Len(replaced) < NameLimit THEN Len(replaced) ELSE NameLimit)

PdfSuffix == << ".", "p", "d", "f" >>

\* `filled_${i + 1}.pdf`
DefaultName(i) == << "f", "i", "l", "l", "e", "d", "_" >> \o NumberText(i + 1) \o PdfSuffix

\* The filename statements of the loop body: the entry name, or the exception
\* of String(...) on a value without a primitive conversion.
EntryName(i, row, filenameField) ==
    IF filenameField = NoField \/ row.id.kind = "absent" \/ row.id = CellText(<< >>)
    THEN [ok |-> TRUE, name |-> DefaultName(i)]
    ELSE IF row.id.kind = "object"
         THEN [ok |-> FALSE, name |-> << >>]
         ELSE [ok |-> TRUE, name |-> SafeName(row.id.s) \o PdfSuffix]

NamingInit ==
    /\ JobsIdle
    /\ fieldsFile = "fields"
    /\ userFields = [u \in Users |-> NoUserFile]
    /\ args \in {[fn |-> "generateBulkPDFs", dataRows |-> rows, filenameField |-> f,
                  i |-> 0, pdfBuffers |-> << >>, pdfNames |-> << >>, errors |-> << >>,
                  processed |-> 0] :
                    rows \in NamedDatasets, f \in {NoField, "Id"}}
    /\ ret = NoReturn

\* One iteration of the record loop of an archive job.
NameNextRecord ==
    /\ args.i < Len(args.dataRows)
    /\ LET i == args.i
           row == args.dataRows[i + 1]
           r == generateSinglePDF(templatePdf, TemplateFields, DataRow(row.sig),
                                  FieldMapping)
           named == EntryName(i, row, args.filenameField)
       IN args' =
             IF ~r.ok
             THEN [args EXCEPT !.i = i + 1,
                               !.errors = Append(@, [row |-> i + 1, error |-> r.message])]
             ELSE IF ~named.ok
             THEN [args EXCEPT !.i = i + 1,
                               !.pdfBuffers = Append(@, i + 1),
                               !.errors = Append(@, [row |-> i + 1,
                                   error |-> "Cannot convert object to primitive value"])]
             ELSE [args EXCEPT !.i = i + 1,
                               !.pdfBuffers = Append(@, i + 1),
                               !.pdfNames = Append(@, named.name),
                               !.processed = i + 1]
    /\ UNCHANGED << jobVars, ret, userFields >>

\* createZipArchive: entry k is pdfBuffers[k] under pdfNames[k]; an entry
\* without a name makes the archiver emit 'error'.
CreateZipArchive ==
    /\ args.i = Len(args.dataRows)
    /\ ~ret.done
    /\ ret' = IF Len(args.pdfNames) < Len(args.pdfBuffers)
              THEN [done |-> TRUE, ok |-> FALSE, entries |-> << >>]
              ELSE [done |-> TRUE, ok |-> TRUE,
                    entries |-> [k \in DOMAIN args.pdfBuffers |->
                                    [name |-> args.pdfNames[k],
                                     row |-> args.pdfBuffers[k]]]]
    /\ UNCHANGED << jobVars, args, userFields >>

NamingNext == NameNextRecord \/ CreateZipArchive

NamingSpec == NamingInit /\ [][NamingNext]_vars

\* C28: when a job with a resolved schema finishes its record loop, and in
\* every state after that, the number of documents handed to the aggregator
\* plus the number of error entries equals total; every row 1..total is either
\* exactly one document or exactly one error entry, never both, and the error
\* entries are in strictly increasing row order.
C28_DocumentsPlusErrors ==
    args.i = Len(args.dataRows) =>
        /\ Len(args.pdfBuffers) + Len(args.errors) = Len(args.dataRows)
        /\ \A row \in 1..Len(args.dataRows) :
              Cardinality({k \in DOMAIN args.pdfBuffers : args.pdfBuffers[k] = row})
                  + Cardinality({k \in DOMAIN args.errors : args.errors[k].row = row}) = 1
        /\ \A k \in 1..(Len(args.errors) - 1) :
              args.errors[k].row < args.errors[k + 1].row

\* C29: in an archive job distinct successfully rendered records receive
\* distinct entry names, whatever filenameField and the record values are, so
\* the archive holds one separately retrievable entry per rendered record.
C29_DistinctEntryNames ==
    (ret.done /\ ret.ok) =>
        \A i, j \in DOMAIN ret.entries :
            i # j => ret.entries[i].name # ret.entries[j].name

\* ---------------------------------------------------------- template listing
\* C30: the bulk template listing includes the template for a user if and
\* only if resolving the template's fields for the same user, as the fields,
\* auto-map, preview and generate paths do, yields a schema rather than
\* not-found; a listed template can start a job that does not end in
\* 'Template fields not found'.
C30_ListedIffResolvable ==
    (ret.done /\ ret.op = "templates") =>
        (ret.found <=> getTemplateFields(fieldsFile).found)

====
